---- MODULE Spec2Model ----
(***************************************************************************)
(* AsyncDataStoreAdapter (src/src/apscheduler/adapters.py): an async       *)
(* facade over a blocking DataStore.  One cooperative loop thread (thread  *)
(* 0) runs the tasks; worker threads 1..NumThreads run the offloaded       *)
(* blocking calls (to_thread.run_sync); the BlockingPortal relays the      *)
(* callbacks the data store fires on a worker thread back to the loop      *)
(* thread.  An async method is one action per stretch between two awaits.  *)
(* anyio (to_thread, BlockingPortal) is modelled by its documented         *)
(* behaviour.  Tasks are cancelled in SpecCancel only.                     *)
(***************************************************************************)
EXTENDS Naturals, Sequences, FiniteSets

\* ------------------------------------------------------------- bounds
NumTasks == 2
NumThreads == 2
MaxCalls == 2

Tasks == 1..NumTasks
Threads == 1..NumThreads
LoopThread == 0

\* Opaque values passed through the facade.
Errors == {"E1", "E2"}
NoErr == "NoErr"
ArgVals == {"a1", "a2"}
Events == {"ev1", "ev2"}
Tokens == {"k1"}
UserCallbacks == {"cb"}
ExitVals == {"None", "False", "True", "1"}

\* ------------------------------------------------------------ outcomes
None == [kind |-> "none", val |-> "-"]
Ret(v) == [kind |-> "ret", val |-> v]
Raise(e) == [kind |-> "raise", val |-> e]

\* Python truth value of what cm.__exit__ returned (`if not ...`, line 54).
Truthy(v) == v \notin {"None", "False", "0", ""}

\* ------------------------------------------------- the facade's methods
ReturningOps == {"get_schedules", "get_jobs", "acquire_jobs", "get_job_result"}
VoidOps == {"add_schedule", "remove_schedules", "add_job", "release_job"}
PlainOps == ReturningOps \cup VoidOps

\* CallSite with cm.__enter__ called directly instead of offloaded.
CallSiteEnterDirect(fn) ==
    IF fn \in {"subscribe", "unsubscribe", "acquire_schedules", "cm.__enter__"}
    THEN "loop" ELSE "worker"

\* The thread on which the facade calls a function of the data store:
\* "worker" through to_thread.run_sync, "loop" for a direct call.
CallSite(fn) ==
    IF fn \in {"subscribe", "unsubscribe", "acquire_schedules"}
    THEN "loop" ELSE "worker"

\* FacadeResult with the methods written without `return` also losing
\* the error of the call.
FacadeResultSwallow(op, out) ==
    IF op \in ReturningOps THEN out ELSE Ret("None")

\* What a plain facade method hands its caller, given the outcome of the
\* offloaded call: an error propagates out of the await; the value is
\* returned by the methods written `return await ...` and dropped by the
\* methods written `await ...`.
FacadeResult(op, out) ==
    IF out.kind = "raise" THEN out
    ELSE IF op \in ReturningOps THEN out ELSE Ret("None")

\* RunSyncDone without the await: the task goes on once the call is made.
RunSyncNoAwait(j) == j.st \in {"running", "done"}

\* await to_thread.run_sync(...): the task resumes when the call is done.
RunSyncDone(j) == j.st = "done"

\* RunSyncResumes with cancellable=True: a cancellation ends the wait.
RunSyncResumesCancellable(j, c) == RunSyncDone(j) \/ c # "no"

\* to_thread.run_sync is called without cancellable=True (lines 30-72), so
\* anyio shields the wait: a task whose cancel scope is cancelled (c) while
\* it awaits the call still resumes only when the call is done.
RunSyncResumes(j, c) == RunSyncDone(j)

\* AwaitHoldsLoop with a blocking wait in place of the await: the loop
\* thread is held until the call is done.
AwaitHoldsLoopBlocking(j) == j.st \in {"queued", "running"}

\* Whether the loop thread is held by a task waiting for its call j.  The
\* methods wait with `await to_thread.run_sync(...)` (lines 30-72): the
\* task is suspended and the loop thread is free for other tasks and for
\* the portal's calls.
AwaitHoldsLoop(j) == FALSE

\* What the blocking data store may answer to a call.  The void operations
\* of the DataStore interface return None.
Outcomes(fn) ==
    {Raise(e) : e \in Errors} \cup
    (IF fn \in ReturningOps THEN {Ret("r1"), Ret("r2")}
     ELSE IF fn \in {"cm.__exit__", "original.__exit__"}
          THEN {Ret(v) : v \in ExitVals}
     ELSE IF fn = "cm.__enter__" THEN {Ret("schedules")}
     ELSE IF fn = "acquire_schedules" THEN {Ret("cm")}
     ELSE {Ret("None")})

\* A call into the data store made for a task: the function and the
\* argument the facade passes, how far the call is, the worker thread it
\* is running on (0 when it is not running), the kind of thread that made
\* it, how often and with what argument the function was called, and how
\* it ended.
NoJob == [fn |-> "-", arg |-> "-", st |-> "none", thread |-> 0, site |-> "-",
          calls |-> 0, carg |-> "-", out |-> None]
NewJob(fn, a) == [NoJob EXCEPT !.fn = fn, !.arg = a, !.st = "queued"]

\* A call of a wrapped callback: how far it is, the user callback and the
\* event of the call, the thread the user callback is run on, the event
\* it was run with, how often it was run, how it ended, and how the call
\* ended for the calling thread.
NoRelay == [st |-> "none", cb |-> "-", ev |-> "-", on |-> 0, got |-> "-",
            n |-> 0, cbout |-> None, out |-> None]

\* RelayResult with the error of the user callback caught on the way.
RelayResultCaught(o) == IF o.kind = "raise" THEN Ret("None") ELSE o

\* What the wrapped callback, partial(self._portal.call, callback) (line
\* 76), hands the thread that called it when the user callback ended with
\* o: there is no try around the call, the value or the error passes.
RelayResult(o) == o

\* How many plain calls a task has issued, how many of them were started
\* and ended on a worker thread, and how many results it was handed.
NoSeq == [issued |-> 0, started |-> 0, ended |-> 0, got |-> 0]

\* self._portal.call made from thread w (anyio's BlockingPortal): a portal
\* that is not running refuses the call with RuntimeError, and so does a
\* running portal when the caller is the event loop thread itself;
\* otherwise the call is queued for the loop thread and thread w blocks
\* until it is served.
PortalCall(w, p) ==
    IF p # "open" \/ w = LoopThread THEN "refused" ELSE "queued"

NoSub == [cb |-> "-", via |-> "-"]
\* WrappedCallback with the user callback registered as it is.
WrappedCallbackDirect(cb) == [cb |-> cb, via |-> "direct"]

\* subscribe registers partial(self._portal.call, callback) (line 76).
WrappedCallback(cb) == [cb |-> cb, via |-> "portal"]

\* SubscribeResult with the `return` of line 76 left out.
SubscribeResultNone(k) == Ret("None")

\* subscribe hands its caller the token the data store returned (`return
\* self.original.subscribe(...)`, line 76).
SubscribeResult(k) == Ret(k)

\* PortalAtEnter with original.__enter__ offloaded before the portal is
\* made.
PortalAtEnterUnset == "unset"

\* The portal when __aenter__ offloads original.__enter__ (line 30): lines
\* 28-29 have made and opened it.
PortalAtEnter == "open"

\* AExitResult with `return await ...original.__exit__(...)`.
AExitResultForwarded(o) == o

\* What __aexit__ hands `async with` when original.__exit__ returned o
\* (lines 33-35): the method has no return statement.
AExitResult(o) == Ret("None")

\* ScopeReleaseCtx with cm.__exit__(None, None, None) on every path.
ScopeReleaseCtxNone(body) == NoErr

\* The error context the scope hands cm.__exit__ (lines 53-57):
\* sys.exc_info() of the error the body raised, (None, None, None) else.
ScopeReleaseCtx(body) == IF body.kind = "raise" THEN body.val ELSE NoErr

\* ScopeOutcome with the value cm.__exit__ returned ignored.
ScopeOutcomeReraise(body, rel) ==
    IF rel.kind = "raise" THEN rel
    ELSE IF body.kind = "raise" THEN body
    ELSE Ret("None")

\* How the scope ends, given how its body and cm.__exit__ ended (lines
\* 53-57): an error of cm.__exit__ propagates; the body's error is raised
\* again unless cm.__exit__ returned a true value.
ScopeOutcome(body, rel) ==
    IF rel.kind = "raise" THEN rel
    ELSE IF body.kind = "raise" /\ ~Truthy(rel.val) THEN body
    ELSE Ret("None")

\* ScopeAfterEnter with the error of cm.__enter__ dropped.
ScopeAfterEnterAlways(o) == "body"

\* After the offloaded cm.__enter__ (line 50, before the try): its error
\* leaves the method, its value is yielded to the body.
ScopeAfterEnter(o) == IF o.kind = "raise" THEN "propagate" ELSE "body"

\* The scope of one acquire_schedules call: how cm.__enter__ ended, whether
\* the body was reached, how the body ended, and the error contexts of
\* the calls of cm.__exit__.
NoScope == [enter |-> None, entered |-> FALSE, body |-> None, rels |-> << >>]
\* The method a task called, its argument, and whether the facade was open
\* (between the end of __aenter__ and the start of __aexit__) at the call.
NoCur == [op |-> "-", arg |-> "-", open |-> FALSE]
Called(op, a, lf) == [op |-> op, arg |-> a, open |-> (lf = "open")]

VARIABLES
    portal,     \* self._portal: "unset", "open" or "closed"
    original,   \* the data store: "new", "entered" or "exited"
    life,       \* the facade as a context manager
    pc,         \* pc[t]: where task t stands
    cur,        \* cur[t]: the facade method task t called last
    res,        \* res[t]: how that method ended
    job,        \* job[t]: the to_thread.run_sync call task t awaits
    scope,      \* scope[t]: the acquire_schedules scope of task t
    relay,      \* relay[w]: the wrapped callback thread w called
    loopRun,    \* the relay the loop thread is executing, or 0
    subs,       \* the data store's subscription table
    cancel,     \* cancel[t]: where task t was when its scope was cancelled
    seq         \* seq[t]: the calls task t issued, and how far they got

vars == <<portal, original, life, pc, cur, res, job, scope, relay, loopRun,
          subs, cancel, seq>>

Init ==
    /\ portal = "unset"
    /\ original = "new"
    /\ life = "init"
    /\ pc = [t \in Tasks |-> "idle"]
    /\ cur = [t \in Tasks |-> NoCur]
    /\ res = [t \in Tasks |-> None]
    /\ job = [t \in Tasks |-> NoJob]
    /\ scope = [t \in Tasks |-> NoScope]
    /\ relay = [w \in Threads \cup {LoopThread} |-> NoRelay]
    /\ loopRun = 0
    /\ subs = [k \in Tokens |-> NoSub]
    /\ cancel = [t \in Tasks |-> "no"]
    /\ seq = [t \in Tasks |-> NoSeq]

\* The loop thread is free: it is not inside a callback and no task holds
\* it while waiting for a call.
LoopFree == loopRun = 0 /\ \A u \in Tasks : ~AwaitHoldsLoop(job[u])

\* A task may take a step: the loop thread is free.
Runnable(t, at) == pc[t] = at /\ LoopFree

\* The data store after function fn ended with outcome o.
OriginalAfter(fn, o) ==
    IF fn = "original.__enter__" /\ o.kind = "ret" THEN "entered"
    ELSE IF fn = "original.__exit__" THEN "exited"
    ELSE original

\* The scope record sc once fn has been called with argument a: every call
\* of cm.__exit__ is appended with the error context it was given.
ScopeCalled(sc, fn, a) ==
    IF fn = "cm.__exit__" THEN [sc EXCEPT !.rels = Append(@, a)] ELSE sc

\* Task t calls function fn of the data store with argument a and goes on
\* at `at`.  Through to_thread.run_sync the call is queued for a worker
\* thread and the task is suspended; a direct call runs to its end on the
\* loop thread.  to_thread.run_sync starts with a checkpoint: in a task
\* whose cancel scope is cancelled it raises CancelledError before the
\* function is handed to a thread, and the error leaves the method.
Invoke(t, fn, a, at, sc) ==
    IF CallSite(fn) = "worker" /\ cancel[t] # "no"
    THEN /\ pc' = [pc EXCEPT ![t] = "idle"]
         /\ res' = [res EXCEPT ![t] = Raise("CancelledError")]
         /\ job' = [job EXCEPT ![t] = [NoJob EXCEPT !.fn = fn, !.arg = a]]
         /\ scope' = [scope EXCEPT ![t] = sc]
         /\ UNCHANGED original
    ELSE
    /\ pc' = [pc EXCEPT ![t] = at]
    /\ res' = [res EXCEPT ![t] = None]
    /\ IF CallSite(fn) = "worker"
       THEN /\ job' = [job EXCEPT ![t] = NewJob(fn, a)]
            /\ scope' = [scope EXCEPT ![t] = sc]
            /\ UNCHANGED original
       ELSE \E o \in Outcomes(fn) :
            /\ job' = [job EXCEPT ![t] =
                         [fn |-> fn, arg |-> a, st |-> "done", thread |-> 0,
                          site |-> "loop", calls |-> 1, carg |-> a,
                          out |-> o]]
            /\ scope' = [scope EXCEPT ![t] = ScopeCalled(sc, fn, a)]
            /\ original' = OriginalAfter(fn, o)

\* The method task t is in ends with outcome o.
Finish(t, o) ==
    /\ res' = [res EXCEPT ![t] = o]
    /\ pc' = [pc EXCEPT ![t] = "idle"]

\* ------------------------------------------------- lifecycle (27-35)
\* __aenter__, lines 28-30: create and open the portal, then offload
\* original.__enter__.  The instance is opened once (`async with adapter`),
\* so the @reentrant decorator of line 21 passes the first entry and the
\* last exit straight to these methods.
AEnter(t) ==
    /\ Runnable(t, "idle")
    /\ life = "init"
    /\ cur' = [cur EXCEPT ![t] = Called("__aenter__", "-", life)]
    /\ \/ /\ portal' = PortalAtEnter
          /\ life' = "entering"
          /\ Invoke(t, "original.__enter__", "-", "aenter_wait", NoScope)
       \/ /\ portal' = "closed"
          /\ life' = "enter_failed"
          /\ \E e \in Errors : Finish(t, Raise(e))
          /\ scope' = [scope EXCEPT ![t] = NoScope]
          /\ UNCHANGED <<job, original>>
    /\ UNCHANGED <<relay, loopRun, subs>>
    /\ UNCHANGED <<cancel, seq>>

\* __aenter__, lines 30-31: the offloaded enter phase is over.
AEnterResume(t) ==
    /\ Runnable(t, "aenter_wait")
    /\ RunSyncResumes(job[t], cancel[t])
    /\ IF job[t].out.kind = "raise"
       THEN life' = "enter_failed" /\ Finish(t, job[t].out)
       ELSE life' = "open" /\ Finish(t, Ret("self"))
    /\ UNCHANGED <<portal, original, cur, job, scope, relay, loopRun, subs>>
    /\ UNCHANGED <<cancel, seq>>

\* __aexit__, line 34: offload original.__exit__ with the error context.
AExit(t, ctx) ==
    /\ Runnable(t, "idle")
    /\ life = "open"
    /\ cur' = [cur EXCEPT ![t] = Called("__aexit__", ctx, life)]
    /\ life' = "exiting"
    /\ Invoke(t, "original.__exit__", ctx, "aexit_wait", NoScope)
    /\ UNCHANGED <<portal, relay, loopRun, subs>>
    /\ UNCHANGED <<cancel, seq>>

\* __aexit__, lines 34-35: an error of the exit phase leaves the method;
\* otherwise the portal is stopped (it takes no new call).
AExitResume(t) ==
    /\ Runnable(t, "aexit_wait")
    /\ RunSyncResumes(job[t], cancel[t])
    /\ IF job[t].out.kind = "raise"
       THEN /\ life' = "closed"
            /\ Finish(t, job[t].out)
            /\ UNCHANGED portal
       ELSE /\ portal' = "closed"
            /\ pc' = [pc EXCEPT ![t] = "aexit_close"]
            /\ UNCHANGED <<life, res>>
    /\ UNCHANGED <<original, cur, job, scope, relay, loopRun, subs>>
    /\ UNCHANGED <<cancel, seq>>

\* __aexit__, line 35: the portal's __aexit__ returns once the calls it
\* had accepted are served; the method returns None.
AExitDone(t) ==
    /\ Runnable(t, "aexit_close")
    /\ \A w \in Threads : relay[w].st # "pending"
    /\ life' = "closed"
    /\ Finish(t, AExitResult(job[t].out))
    /\ UNCHANGED <<portal, original, cur, job, scope, relay, loopRun, subs>>
    /\ UNCHANGED <<cancel, seq>>

\* ------------------------------------------- plain operations (37-72)
\* A plain method, lines 37-44 and 59-72: offload the operation of the
\* same name with the caller's argument.
PlainCallStep(t, op, a) ==
    /\ Runnable(t, "idle")
    /\ cur' = [cur EXCEPT ![t] = Called(op, a, life)]
    /\ Invoke(t, op, a, "plain_wait", NoScope)
    /\ UNCHANGED <<portal, life, relay, loopRun, subs>>
    /\ UNCHANGED cancel

\* The await is over: the method ends with the outcome of the call.
PlainResumeStep(t) ==
    /\ Runnable(t, "plain_wait")
    /\ RunSyncResumes(job[t], cancel[t])
    /\ Finish(t, FacadeResult(cur[t].op, job[t].out))
    /\ UNCHANGED <<portal, original, life, cur, job, scope, relay, loopRun,
                   subs>>
    /\ UNCHANGED cancel

\* The two steps of a plain method when its calls are not counted.
PlainCall(t, op, a) == PlainCallStep(t, op, a) /\ UNCHANGED seq
PlainResume(t) == PlainResumeStep(t) /\ UNCHANGED seq

\* ------------------------------------------- acquire_schedules (46-57)
\* Line 49: the context manager is made by a direct call.
AcqStart(t, a) ==
    /\ Runnable(t, "idle")
    /\ cur' = [cur EXCEPT ![t] = Called("acquire_schedules", a, life)]
    /\ Invoke(t, "acquire_schedules", a, "acq_made", NoScope)
    /\ UNCHANGED <<portal, life, relay, loopRun, subs>>
    /\ UNCHANGED <<cancel, seq>>

\* Lines 49-50: an error of the factory leaves the method; otherwise
\* cm.__enter__ is offloaded.
AcqMade(t) ==
    /\ Runnable(t, "acq_made")
    /\ RunSyncResumes(job[t], cancel[t])
    /\ IF job[t].out.kind = "raise"
       THEN /\ Finish(t, job[t].out)
            /\ UNCHANGED <<job, scope, original>>
       ELSE Invoke(t, "cm.__enter__", "-", "acq_enter_wait", scope[t])
    /\ UNCHANGED <<portal, life, cur, relay, loopRun, subs>>
    /\ UNCHANGED <<cancel, seq>>

\* Lines 50-52: the acquisition is over.
AcqEntered(t) ==
    /\ Runnable(t, "acq_enter_wait")
    /\ RunSyncResumes(job[t], cancel[t])
    /\ IF ScopeAfterEnter(job[t].out) = "propagate"
       THEN /\ Finish(t, job[t].out)
            /\ scope' = [scope EXCEPT ![t].enter = job[t].out]
       ELSE /\ pc' = [pc EXCEPT ![t] = "body"]
            /\ scope' = [scope EXCEPT ![t].enter = job[t].out,
                                      ![t].entered = TRUE]
            /\ UNCHANGED res
    /\ UNCHANGED <<portal, original, life, cur, job, relay, loopRun, subs>>
    /\ UNCHANGED <<cancel, seq>>

\* Lines 52-57: the consumer's body ends with bo, and cm.__exit__ is
\* offloaded with the matching error context.
Body(t, bo) ==
    /\ Runnable(t, "body")
    /\ Invoke(t, "cm.__exit__", ScopeReleaseCtx(bo), "acq_exit_wait",
              [scope[t] EXCEPT !.body = bo])
    /\ UNCHANGED <<portal, life, cur, relay, loopRun, subs>>
    /\ UNCHANGED <<cancel, seq>>

\* Lines 54-57: the release is over and the scope ends.
AcqExited(t) ==
    /\ Runnable(t, "acq_exit_wait")
    /\ RunSyncResumes(job[t], cancel[t])
    /\ Finish(t, ScopeOutcome(scope[t].body, job[t].out))
    /\ UNCHANGED <<portal, original, life, cur, job, scope, relay, loopRun,
                   subs>>
    /\ UNCHANGED <<cancel, seq>>

\* ------------------------------------------------------- cancellation
\* The cancel scope around task t is cancelled while the task is suspended
\* in a plain method whose call is running on a worker thread, or in the
\* body of an acquire_schedules scope.  The cancellation stays pending on
\* the task until the task leaves the scope.
Cancel(t) ==
    /\ cancel[t] = "no"
    /\ \/ /\ pc[t] = "plain_wait"
          /\ job[t].st = "running"
          /\ cancel' = [cancel EXCEPT ![t] = "running"]
       \/ /\ pc[t] = "body"
          /\ cancel' = [cancel EXCEPT ![t] = "body"]
    /\ UNCHANGED <<portal, original, life, pc, cur, res, job, scope, relay,
                   loopRun, subs, seq>>

\* Lines 52-54: the cancellation reaches the body, which is suspended at
\* the yield, as CancelledError; `except BaseException` catches it.
BodyCancelled(t) ==
    /\ cancel[t] = "body"
    /\ Body(t, Raise("CancelledError"))

\* The task has left the cancelled scope.
CancelLeft(t) ==
    /\ Runnable(t, "idle")
    /\ cancel[t] # "no"
    /\ cancel' = [cancel EXCEPT ![t] = "no"]
    /\ UNCHANGED <<portal, original, life, pc, cur, res, job, scope, relay,
                   loopRun, subs, seq>>

\* ----------------------------------------- subscribe, unsubscribe (74-79)
\* Line 76: reading self._portal fails before __aenter__ has set it; else
\* the wrapped callback is registered by a direct call and the data
\* store's token is returned.
Subscribe(t, cb) ==
    /\ Runnable(t, "idle")
    /\ cur' = [cur EXCEPT ![t] = Called("subscribe", cb, life)]
    /\ job' = [job EXCEPT ![t] = NoJob]
    /\ scope' = [scope EXCEPT ![t] = NoScope]
    /\ IF portal = "unset"
       THEN /\ Finish(t, Raise("AttributeError"))
            /\ UNCHANGED subs
       ELSE \E k \in Tokens :
            /\ subs[k] = NoSub
            /\ subs' = [subs EXCEPT ![k] = WrappedCallback(cb)]
            /\ Finish(t, SubscribeResult(k))
    /\ UNCHANGED <<portal, original, life, relay, loopRun>>
    /\ UNCHANGED <<cancel, seq>>

\* Line 79: the token goes to the data store by a direct call.
Unsubscribe(t, k) ==
    /\ Runnable(t, "idle")
    /\ cur' = [cur EXCEPT ![t] = Called("unsubscribe", k, life)]
    /\ job' = [job EXCEPT ![t] = NoJob]
    /\ scope' = [scope EXCEPT ![t] = NoScope]
    /\ subs' = [subs EXCEPT ![k] = NoSub]
    /\ Finish(t, Ret("None"))
    /\ UNCHANGED <<portal, original, life, relay, loopRun>>
    /\ UNCHANGED <<cancel, seq>>

\* Line 76 with a data store that calls the callable it is given during
\* the registration itself, with event ev: subscribe is a direct call, so
\* the wrapped callback, self._portal.call(cb, ev), is called on the loop
\* thread.  The data store lets the error of that call pass, and
\* subscribe ends with it, or handles it and returns the token.
SubscribeFired(t, cb, ev) ==
    /\ Runnable(t, "idle")
    /\ portal # "unset"
    /\ cur' = [cur EXCEPT ![t] = Called("subscribe", cb, life)]
    /\ job' = [job EXCEPT ![t] = NoJob]
    /\ scope' = [scope EXCEPT ![t] = NoScope]
    /\ \E k \in Tokens :
         /\ subs[k] = NoSub
         /\ subs' = [subs EXCEPT ![k] = WrappedCallback(cb)]
         /\ PortalCall(LoopThread, portal) = "refused"
         /\ relay' = [relay EXCEPT ![LoopThread] =
                [NoRelay EXCEPT !.st = "done", !.cb = cb, !.ev = ev,
                                !.on = LoopThread,
                                !.out = Raise("RuntimeError")]]
         /\ \/ Finish(t, Raise("RuntimeError"))
            \/ Finish(t, SubscribeResult(k))
    /\ UNCHANGED <<portal, original, life, loopRun>>
    /\ UNCHANGED <<cancel, seq>>

\* ------------------------------------------------------ worker threads
ThreadIdle(w) ==
    /\ relay[w].st = "none"
    /\ \A u \in Tasks : ~(job[u].st = "running" /\ job[u].thread = w)

\* to_thread.run_sync: an idle worker thread takes the queued call of
\* task t and calls the function.
WorkerStartStep(t, w) ==
    /\ job[t].st = "queued"
    /\ ThreadIdle(w)
    /\ job' = [job EXCEPT ![t].st = "running", ![t].thread = w,
                          ![t].site = "worker", ![t].calls = @ + 1,
                          ![t].carg = job[t].arg]
    /\ scope' = [scope EXCEPT ![t] = ScopeCalled(@, job[t].fn, job[t].arg)]
    /\ UNCHANGED <<portal, original, life, pc, cur, res, relay, loopRun, subs>>
    /\ UNCHANGED cancel

\* The function returns or raises on its worker thread.
WorkerFinishStep(t) ==
    /\ job[t].st = "running"
    /\ relay[job[t].thread].st = "none"
    /\ \E o \in Outcomes(job[t].fn) :
         /\ job' = [job EXCEPT ![t].st = "done", ![t].thread = 0,
                               ![t].out = o]
         /\ original' = OriginalAfter(job[t].fn, o)
    /\ UNCHANGED <<portal, life, pc, cur, res, scope, relay, loopRun, subs>>
    /\ UNCHANGED cancel

\* The two steps of a worker thread when the calls are not counted.
WorkerStart(t, w) == WorkerStartStep(t, w) /\ UNCHANGED seq
WorkerFinish(t) == WorkerFinishStep(t) /\ UNCHANGED seq

\* ------------------------------------------------- callback relay (76)
\* The data store, inside a call on worker thread w, fires subscription k
\* with event ev.  The wrapped callback is self._portal.call(cb, ev): a
\* portal that is not running refuses the call with RuntimeError, a
\* running one queues it for the loop thread and blocks thread w.
Fire(t, k, ev) ==
    LET w == job[t].thread
        sub == subs[k]
        on == IF sub.via = "portal" THEN LoopThread ELSE w
        r == [NoRelay EXCEPT !.cb = sub.cb, !.ev = ev, !.on = on]
    IN /\ job[t].st = "running"
       /\ relay[w].st = "none"
       /\ sub # NoSub
       /\ relay' = [relay EXCEPT ![w] =
            IF sub.via = "portal" /\ PortalCall(w, portal) = "refused"
            THEN [r EXCEPT !.st = "done", !.out = Raise("RuntimeError")]
            ELSE [r EXCEPT !.st = "pending"]]
       /\ UNCHANGED <<portal, original, life, pc, cur, res, job, scope,
                      loopRun, subs>>
       /\ UNCHANGED <<cancel, seq>>

\* The user callback starts, with the event, on the thread it was sent to:
\* the loop thread takes one call at a time.
CallbackBegin(w) ==
    /\ relay[w].st = "pending"
    /\ relay[w].on = LoopThread => LoopFree
    /\ relay' = [relay EXCEPT ![w].st = "executing", ![w].got = relay[w].ev,
                              ![w].n = @ + 1]
    /\ loopRun' = IF relay[w].on = LoopThread THEN w ELSE loopRun
    /\ UNCHANGED <<portal, original, life, pc, cur, res, job, scope, subs>>
    /\ UNCHANGED <<cancel, seq>>

\* The user callback returns or raises; the outcome goes to thread w.
CallbackEnd(w) ==
    /\ relay[w].st = "executing"
    /\ \E o \in {Ret("None"), Raise("R")} :
         relay' = [relay EXCEPT ![w].st = "done", ![w].cbout = o,
                                ![w].out = RelayResult(o)]
    /\ loopRun' = IF relay[w].on = LoopThread THEN 0 ELSE loopRun
    /\ UNCHANGED <<portal, original, life, pc, cur, res, job, scope, subs>>
    /\ UNCHANGED <<cancel, seq>>

\* portal.call returns (or raises) in thread w, which goes on in the
\* data store.
RelayReturn(w) ==
    /\ relay[w].st = "done"
    /\ relay' = [relay EXCEPT ![w] = NoRelay]
    /\ UNCHANGED <<portal, original, life, pc, cur, res, job, scope, loopRun,
                   subs>>
    /\ UNCHANGED <<cancel, seq>>

\* ------------------------------------------------------ specifications
\* Task Main is the caller whose calls are followed through every method
\* of the facade.  Task Owner holds the facade (`async with adapter`): it
\* opens and closes it while Main is at work.  Every task other than Main
\* competes for the loop, the worker threads and the data store by
\* calling add_job.
Main == CHOOSE t \in Tasks : \A u \in Tasks : t <= u
Owner == CHOOSE t \in Tasks : \A u \in Tasks : u <= t
OpsOf(t) == IF t = Main THEN PlainOps ELSE {"add_job"}
ArgsOf(t) == IF t = Main THEN ArgVals ELSE {"a1"}

NextLife ==
    \/ AEnter(Owner)
    \/ AEnterResume(Owner)
    \/ \E ctx \in Errors \cup {NoErr} : AExit(Owner, ctx)
    \/ AExitResume(Owner)
    \/ AExitDone(Owner)

NextWorker ==
    \/ \E t \in Tasks, w \in Threads : WorkerStart(t, w)
    \/ \E t \in Tasks : WorkerFinish(t)

NextPlain ==
    \/ \E t \in Tasks : \E op \in OpsOf(t), a \in ArgsOf(t) :
         PlainCall(t, op, a)
    \/ \E t \in Tasks : PlainResume(t)

NextAddJob ==
    \/ \E t \in Tasks : PlainCall(t, "add_job", "a1")
    \/ \E t \in Tasks : PlainResume(t)

NextPlainOnce ==
    \/ \E t \in Tasks : \E op \in OpsOf(t) : PlainCall(t, op, "a1")
    \/ \E t \in Tasks : PlainResume(t)

NextScope ==
    \/ \E a \in ArgVals : AcqStart(Main, a)
    \/ AcqMade(Main)
    \/ AcqEntered(Main)
    \/ \E bo \in {Ret("None")} \cup {Raise(e) : e \in Errors} : Body(Main, bo)
    \/ AcqExited(Main)

NextRelay ==
    \/ \E cb \in UserCallbacks : Subscribe(Main, cb)
    \/ \E k \in Tokens : Unsubscribe(Main, k)
    \/ \E t \in Tasks, k \in Tokens, ev \in Events : Fire(t, k, ev)
    \/ \E w \in Threads : CallbackBegin(w)
    \/ \E w \in Threads : CallbackEnd(w)
    \/ \E w \in Threads : RelayReturn(w)

\* The facade driven through its lifecycle and its plain operations.
SpecPlain == Init /\ [][NextLife \/ NextWorker \/ NextPlain]_vars

\* The facade driven through its lifecycle and acquire_schedules, with
\* every plain operation called beside it.
SpecScope == Init /\ [][NextLife \/ NextWorker \/ NextPlainOnce \/ NextScope]_vars

\* The facade driven through its lifecycle, subscribe and unsubscribe,
\* with add_job as the operation inside which the data store fires events.
SpecRelay == Init /\ [][NextLife \/ NextWorker \/ NextAddJob \/ NextRelay]_vars

\* The plain calls again, each counted in seq at the four points it passes:
\* issued by its task, started and ended on a worker thread, result handed
\* to the task.  A task issues at most MaxCalls calls.
IssueCall(t, op, a) ==
    /\ seq[t].issued < MaxCalls
    /\ PlainCallStep(t, op, a)
    /\ seq' = [seq EXCEPT ![t].issued = @ + 1]

StartCall(t, w) ==
    /\ WorkerStartStep(t, w)
    /\ seq' = [seq EXCEPT ![t].started = @ + 1]

EndCall(t) ==
    /\ WorkerFinishStep(t)
    /\ seq' = [seq EXCEPT ![t].ended = @ + 1]

ResultCall(t) ==
    /\ PlainResumeStep(t)
    /\ seq' = [seq EXCEPT ![t].got = @ + 1]

NextOrder ==
    \/ \E t \in Tasks : \E op \in OpsOf(t) : IssueCall(t, op, "a1")
    \/ \E t \in Tasks, w \in Threads : StartCall(t, w)
    \/ \E t \in Tasks : EndCall(t)
    \/ \E t \in Tasks : ResultCall(t)

\* Every task issuing plain calls one after the other.
SpecOrder == Init /\ [][NextOrder]_vars

NextLoopCall ==
    \E cb \in UserCallbacks, ev \in Events : SubscribeFired(Main, cb, ev)

\* SpecRelay with a data store that also fires during subscribe.
SpecLoopCall ==
    Init /\ [][NextLife \/ NextWorker \/ NextAddJob \/ NextRelay
                \/ NextLoopCall]_vars

NextCancel ==
    \/ Cancel(Main)
    \/ BodyCancelled(Main)
    \/ CancelLeft(Main)

\* The plain operations and acquire_schedules called by a task that can
\* be cancelled.
SpecCancel ==
    Init /\ [][NextWorker \/ NextPlainOnce \/ NextScope \/ NextCancel]_vars

\* What the loop thread owes task t: running the callback that the call
\* of t has triggered, and resuming t after the call.
Due(t) ==
    \/ job[t].st = "running" /\ CallbackBegin(job[t].thread)
    \/ PlainResume(t)
    \/ AEnterResume(t)
    \/ AExitResume(t)
    \/ AExitDone(t)
    \/ AcqMade(t)
    \/ AcqEntered(t)
    \/ AcqExited(t)

\* The loop serves the portal's calls and the resumed tasks in the order
\* they become ready, so what is due for a task is not put off for ever;
\* a user callback and a function of the data store come to an end.
LiveFairness ==
    /\ \A w \in Threads : WF_vars(CallbackEnd(w)) /\ WF_vars(RelayReturn(w))
    /\ \A t \in Tasks : SF_vars(Due(t)) /\ SF_vars(WorkerFinish(t))

NextPeers ==
    \/ \E t \in Tasks \ {Main} : PlainCall(t, "add_job", "a1")
    \/ \E t \in Tasks \ {Main} : PlainResume(t)

NextLive == NextLife \/ NextWorker \/ NextPeers \/ NextScope \/ NextRelay

\* SpecRelay under fair scheduling.
SpecLive == Init /\ [][NextLive]_vars /\ LiveFairness

\* ------------------------------------------------------------ claims
ScopeEnded(t) == pc[t] = "idle" /\ cur[t].op = "acquire_schedules"
PlainEnded(t) == pc[t] = "idle" /\ cur[t].op \in PlainOps

C2_SuppressIffTruthy ==
    \A t \in Tasks :
        (/\ ScopeEnded(t)
         /\ scope[t].body.kind = "raise"
         /\ job[t].fn = "cm.__exit__"
         /\ job[t].out.kind = "ret") =>
            /\ res[t] = scope[t].body <=> job[t].out.val \in {"None", "False"}
            /\ job[t].out.val \in {"True", "1"} => res[t] = Ret("None")

C2_Witness ==
    /\ ScopeEnded(Main)
    /\ scope[Main].body = Raise("E1")
    /\ job[Main].fn = "cm.__exit__"
    /\ job[Main].out = Ret("1")
    /\ res[Main] = Ret("None")

\* C3: when cm.__enter__ raises, the body is never run, cm.__exit__ is
\* never called and the error of cm.__enter__ reaches the consumer.
C3_FailedAcquireNoRelease ==
    \A t \in Tasks :
        scope[t].enter.kind = "raise" =>
            /\ ~scope[t].entered
            /\ scope[t].body = None
            /\ scope[t].rels = << >>
            /\ pc[t] = "idle"
            /\ res[t] = scope[t].enter

C3_Witness ==
    /\ scope[Main].enter = Raise("E1")
    /\ res[Main] = Raise("E1")
    /\ job[Main].fn = "cm.__enter__"
    /\ job[Main].calls = 1

\* C4: once __aexit__ is over the portal is closed, also when
\* original.__exit__ raised.
C4_PortalClosedAfterExit == life = "closed" => portal # "open"

\* C5: when __aenter__ fails the facade is not left with an open portal.
C5_FailedEnterLeavesClosed ==
    life = "enter_failed" => portal # "open" /\ original # "entered"

\* C6: every call of a wrapped callback that the portal accepts runs the
\* user callback exactly once, on the loop thread, with the event of that
\* call; no two runs overlap; while the facade is open no call is refused.
Refused(r) == r.st = "done" /\ r.out = Raise("RuntimeError") /\ r.n = 0
C6_RelayedOnceOnLoop ==
    /\ \A w \in Threads :
        /\ relay[w].st = "pending" => relay[w].n = 0
        /\ relay[w].st = "executing" =>
              /\ relay[w].n = 1
              /\ relay[w].on = LoopThread
              /\ relay[w].got = relay[w].ev
              /\ loopRun = w
        /\ (relay[w].st = "done" /\ ~Refused(relay[w])) =>
              /\ relay[w].n = 1
              /\ relay[w].on = LoopThread
              /\ relay[w].got = relay[w].ev
        /\ Refused(relay[w]) => life # "open"
    /\ Cardinality({w \in Threads : relay[w].st = "executing"}) <= 1
    /\ life = "open" => portal = "open"

C6_Witness ==
    \E w1, w2 \in Threads :
        /\ w1 # w2
        /\ life = "open"
        /\ relay[w1].st = "executing" /\ relay[w1].got = "ev1"
        /\ relay[w2].st = "pending" /\ relay[w2].ev = "ev2"

\* C7: a method called while the facade is not open is not carried out: the
\* data store is not called and the method ends with an error.
C7_ClosedCallsFail ==
    \A t \in Tasks :
        (cur[t].op \in PlainOps \cup {"acquire_schedules"} /\ ~cur[t].open) =>
            /\ job[t].calls = 0
            /\ pc[t] = "idle" => res[t].kind = "raise"

\* C8: apart from subscribe and unsubscribe, the facade calls the data
\* store on a worker thread only.
C8_AllOffloaded ==
    \A t \in Tasks : job[t].calls > 0 => job[t].site = "worker"

\* C8 as amended: the call acquire_schedules(scheduler_id, limit) that makes
\* the context manager runs on the loop thread; every other call (the plain
\* operations, original.__enter__ and __exit__, cm.__enter__ and __exit__)
\* runs on a worker thread.
C8_OffloadedButFactory ==
    \A t \in Tasks :
        job[t].calls > 0 =>
            /\ job[t].site = "loop" <=> job[t].fn = "acquire_schedules"
            /\ job[t].site = "worker" <=> job[t].fn # "acquire_schedules"
            /\ job[t].st = "running" => job[t].thread \in Threads

C8_Witness ==
    /\ job[Main].fn = "cm.__enter__"
    /\ job[Main].st = "running"
    /\ job[Main].site = "worker"
    /\ job[Owner].fn = "original.__exit__"
    /\ job[Owner].st = "running"

\* C9: when the data store's operation raises E, the plain facade method
\* raises the same E.
C9_ErrorTransparent ==
    \A t \in Tasks :
        (PlainEnded(t) /\ job[t].out.kind = "raise") =>
            /\ job[t].fn = cur[t].op
            /\ res[t] = job[t].out

C9_Witness ==
    /\ PlainEnded(Main)
    /\ cur[Main].op = "release_job"
    /\ job[Main].out = Raise("E2")
    /\ res[Main] = Raise("E2")

\* C10: a plain facade method calls its operation of the data store exactly
\* once, with the caller's arguments, on one worker thread that runs
\* nothing else meanwhile; the caller goes on only when the call is over
\* and is handed the value the call returned.
C10_OneCallThenResume ==
    \A t \in Tasks :
        cur[t].op \in PlainOps =>
            /\ job[t].fn = cur[t].op
            /\ job[t].arg = cur[t].arg
            /\ job[t].calls <= 1
            /\ job[t].calls = 1 =>
                   job[t].carg = cur[t].arg /\ job[t].site = "worker"
            /\ job[t].st = "running" =>
                   /\ job[t].thread \in Threads
                   /\ \A u \in Tasks \ {t} :
                        job[u].st = "running" => job[u].thread # job[t].thread
            /\ pc[t] = "idle" =>
                   /\ job[t].st = "done"
                   /\ job[t].calls = 1
                   /\ job[t].out.kind = "ret" => res[t] = job[t].out

C10_Witness ==
    /\ PlainEnded(Main)
    /\ cur[Main].op = "get_jobs"
    /\ cur[Main].arg = "a2"
    /\ job[Main].carg = "a2"
    /\ res[Main] = Ret("r2")
    /\ job[Owner].st = "running"

\* C11: the plain calls one task awaits one after the other are executed
\* by the data store in the order the task issued them and never overlap:
\* call k+1 is issued only when the result of call k has been handed to
\* the task, a call is started only after it was issued and ended only
\* after it was started, and a result is handed over only for a call that
\* has ended; calls of other tasks may run beside them.
C11_IssueOrder ==
    \A t \in Tasks :
        /\ seq[t].got <= seq[t].ended
        /\ seq[t].ended <= seq[t].started
        /\ seq[t].started <= seq[t].issued
        /\ seq[t].issued <= seq[t].got + 1
        /\ (pc[t] = "idle" => seq[t].got = seq[t].issued)

\* The second call of Main runs while a call of another task runs too.
C11_Witness ==
    /\ seq[Main].issued = 2
    /\ job[Main].st = "running"
    /\ \E u \in Tasks \ {Main} :
         job[u].st = "running" /\ job[u].thread # job[Main].thread

\* C12: subscribe returns the very token the data store produced for the
\* wrapped callback, and unsubscribe hands the caller's token to the data
\* store in the same step, without offloading: when subscribe has
\* returned, the token it returned is the one under which the caller's
\* callback is registered; when unsubscribe has returned, nothing is
\* registered under its token; a registered callback runs on the loop
\* thread; and a trigger starts a run of a callback only while that
\* callback is registered, so none does after its unsubscribe returned.
C12_TokenRoundTrip ==
    /\ [](\A t \in Tasks :
            /\ (pc[t] = "idle" /\ cur[t].op = "subscribe"
                   /\ res[t].kind = "ret") =>
                 /\ res[t].val \in Tokens
                 /\ subs[res[t].val] # NoSub
                 /\ subs[res[t].val].cb = cur[t].arg
                 /\ job[t].st = "none"
            /\ (pc[t] = "idle" /\ cur[t].op = "unsubscribe") =>
                 /\ subs[cur[t].arg] = NoSub
                 /\ res[t] = Ret("None")
                 /\ job[t].st = "none")
    /\ [](\A w \in Threads :
            relay[w].st = "executing" => relay[w].on = LoopThread)
    /\ [][\A w \in Threads :
            (relay[w].st = "none" /\ relay'[w].st # "none") =>
                \E k \in Tokens :
                    subs[k] # NoSub /\ subs[k].cb = relay'[w].cb]_vars

\* unsubscribe has returned while a run of the callback that was
\* triggered before it is still going on.
C12_Witness ==
    /\ pc[Main] = "idle"
    /\ cur[Main].op = "unsubscribe"
    /\ \E w \in Threads : relay[w].st = "executing" /\ relay[w].cb = "cb"

\* C13: a wrapped callback called from the loop thread itself runs the
\* user callback on the loop thread, once, and hands its result to the
\* caller.
C13_LoopCallRuns ==
    relay[LoopThread].st = "done" =>
        relay[LoopThread].n = 1 /\ ~Refused(relay[LoopThread])

\* C14 as stated: a task cancelled while its call is running stops
\* waiting, so it ends with the cancellation and not with the outcome of
\* the call.
C14_CancelDetaches ==
    \A t \in Tasks :
        (cancel[t] = "running" /\ PlainEnded(t) /\ job[t].calls = 1) =>
            res[t] = Raise("CancelledError")

\* C14, amended: when the cancel scope of a task is cancelled while its
\* offloaded call is running, the call is not aborted: it is made once and
\* goes on to its end on its worker thread.  The task does not stop
\* waiting either: it stays suspended while the call is running and is
\* resumed with the outcome of the completed call.
C14_CancelShielded ==
    /\ [](\A t \in Tasks :
            (cancel[t] = "running" /\ cur[t].op \in PlainOps
               /\ job[t].calls = 1) =>
                /\ job[t].st \in {"running", "done"}
                /\ job[t].st = "running" => pc[t] = "plain_wait"
                /\ pc[t] = "idle" =>
                      res[t] = FacadeResult(cur[t].op, job[t].out))
    /\ [][\A t \in Tasks :
            (cancel'[t] = "running" /\ job[t].st = "running") =>
                /\ job'[t].st \in {"running", "done"}
                /\ job'[t].calls = job[t].calls
                /\ job'[t].fn = job[t].fn]_vars

\* The cancelled task was resumed with the value the call returned.
C14_Witness ==
    /\ cancel[Main] = "running"
    /\ PlainEnded(Main)
    /\ job[Main].st = "done" /\ job[Main].calls = 1
    /\ res[Main] = Ret("r1")

\* C15: the portal is open in every state in which the data store is
\* entered, and in every state in which its enter phase or its exit phase
\* is waiting for or running on a worker thread: it is opened before
\* original.__enter__ is offloaded and closed only after original.__exit__
\* has ended.  So no callback the data store fires inside these two
\* phases is refused.
C15_PortalCoversStore ==
    /\ original = "entered" => portal = "open"
    /\ \A t \in Tasks :
         job[t].fn \in {"original.__enter__", "original.__exit__"} =>
            /\ job[t].st \in {"queued", "running"} => portal = "open"
            /\ job[t].st = "running" => ~Refused(relay[job[t].thread])

\* A callback fired by the data store inside its exit phase is running
\* on the loop thread.
C15_Witness ==
    /\ job[Owner].fn = "original.__exit__"
    /\ job[Owner].st = "running"
    /\ relay[job[Owner].thread].st = "executing"
    /\ relay[job[Owner].thread].on = LoopThread

\* C16: while a relayed user callback is waiting or running, the worker
\* thread that triggered it stays blocked inside its call of the data
\* store; when the callback has ended, with error R or with a value, that
\* thread is handed just that outcome; the loop thread is held by a
\* callback only while the callback runs; and the end of a callback,
\* whatever it is, leaves the portal and every task of the facade as they
\* were and frees the loop thread for the next relay.
C16_RelayErrorToTrigger ==
    /\ [](\A w \in Threads :
            /\ relay[w].st \in {"pending", "executing", "done"} =>
                 \E t \in Tasks : job[t].st = "running" /\ job[t].thread = w
            /\ (relay[w].st = "done" /\ relay[w].n = 1) =>
                 relay[w].out = relay[w].cbout)
    /\ [](loopRun # 0 => relay[loopRun].st = "executing")
    /\ [][\A w \in Threads :
            (relay[w].st = "executing" /\ relay'[w].st = "done") =>
                /\ loopRun' = 0
                /\ portal' = portal
                /\ pc' = pc /\ res' = res /\ life' = life]_vars

\* A callback raised R, its worker thread has R in hand, and the loop
\* thread is running the next relayed callback.
C16_Witness ==
    \E w1, w2 \in Threads :
        /\ relay[w1].st = "done" /\ relay[w1].n = 1
        /\ relay[w1].out = Raise("R")
        /\ relay[w2].st = "executing" /\ loopRun = w2

\* C17: whenever a function of the data store that runs on a worker thread
\* for an offloaded call (an operation, the enter or the exit phase, the
\* acquisition or the release of a scope) has triggered a callback that
\* the portal accepted, the call comes to its end and the task that
\* awaits it is resumed.
Waiting(t) ==
    pc[t] \in {"plain_wait", "aenter_wait", "aexit_wait", "acq_enter_wait",
               "acq_exit_wait"}
C17_RelayedCallCompletes ==
    \A t \in Tasks :
        (job[t].st = "running" /\ Waiting(t)
           /\ relay[job[t].thread].st = "pending")
        ~> (job[t].st = "done" /\ ~Waiting(t))

\* The exit phase of the data store has triggered a callback, which the
\* loop thread is running while the owner's __aexit__ is suspended.
C17_Witness ==
    /\ job[Owner].fn = "original.__exit__"
    /\ job[Owner].st = "running"
    /\ pc[Owner] = "aexit_wait"
    /\ relay[job[Owner].thread].st = "executing"
    /\ loopRun = job[Owner].thread

\* C18: closing the facade leaves the data store's subscription table as
\* it is; a wrapped callback that is triggered when the portal is no
\* longer open is refused in the triggering thread with RuntimeError and
\* the user callback is not run; and once __aexit__ has closed the portal
\* no user callback is waiting for the loop thread or running on it.
C18_ClosedPortalRefuses ==
    /\ []((life = "closed" /\ portal = "closed") =>
            \A w \in Threads : relay[w].st \notin {"pending", "executing"})
    /\ [][(life' # life \/ portal' # portal) => subs' = subs]_vars
    /\ [][\A w \in Threads :
            (portal # "open" /\ relay[w].st = "none"
               /\ relay'[w].st # "none") => Refused(relay'[w])]_vars

\* The facade is closed, the callback is still registered, and a trigger
\* of it has just been refused.
C18_Witness ==
    /\ life = "closed" /\ portal = "closed"
    /\ \E k \in Tokens : subs[k] = WrappedCallback("cb")
    /\ \E w \in Threads : Refused(relay[w]) /\ relay[w].cb = "cb"

\* C19: when the consumer's task is cancelled inside the body of an
\* acquire_schedules scope, cm.__exit__ is called exactly once, with the
\* error context of the cancellation, before the scope ends.
C19_CancelledBodyReleased ==
    \A t \in Tasks :
        (ScopeEnded(t) /\ scope[t].entered
           /\ scope[t].body = Raise("CancelledError")) =>
            scope[t].rels = <<"CancelledError">>

\* C20: __aexit__ hands original.__exit__ the error context it was given,
\* unchanged, in one call, and its own result is None whatever
\* original.__exit__ returned: a true value does not make `async with
\* adapter` suppress the error, while in acquire_schedules a true value
\* of cm.__exit__ does.
C20_CloseNeverSuppresses ==
    \A t \in Tasks :
        cur[t].op = "__aexit__" =>
            /\ job[t].fn = "original.__exit__"
            /\ job[t].arg = cur[t].arg
            /\ job[t].calls <= 1
            /\ job[t].calls = 1 => job[t].carg = cur[t].arg
            /\ (pc[t] = "idle" /\ job[t].out.kind = "ret") =>
                 /\ res[t] = Ret("None")
                 /\ ~Truthy(res[t].val)
            /\ (pc[t] = "idle" /\ job[t].out.kind = "raise") =>
                 res[t] = job[t].out

\* __aexit__ was given the context of E1, original.__exit__ returned True,
\* and __aexit__ returned None.
C20_Witness ==
    /\ pc[Owner] = "idle"
    /\ cur[Owner].op = "__aexit__" /\ cur[Owner].arg = "E1"
    /\ job[Owner].carg = "E1" /\ job[Owner].out = Ret("True")
    /\ res[Owner] = Ret("None")

====
